---- MODULE Spec2Model ----
(***************************************************************************)
(* Model of gcn_classic_to_kafka/socket.py: the per-connection protocol    *)
(* handler client_connected_cb (frame reader read(), per-frame process(),  *)
(* the processing loop and its teardown).                                  *)
(*                                                                         *)
(* asyncio runs one coroutine at a time, so every action below is the code *)
(* between two suspension points (await) of one connection's handler, or a *)
(* step of the environment: the peer writing to / closing the socket, and  *)
(* time passing.                                                           *)
(***************************************************************************)
EXTENDS Integers, Sequences, FiniteSets, TLC

VARIABLES
    pc,         \* handler position: "idle" (not yet accepted), "reading"
                \* (inside the while-loop, awaiting wait_for(read())),
                \* "closing" (in finally, awaiting writer.wait_closed()),
                \* "closed" (callback returned / raised)
    rpos,       \* which readexactly of read() the handler is suspended at
    cur,        \* locals of read(): bin_data, voe_len, voe_data, txt_len
    inbuf,      \* StreamReader buffer: bytes received and not yet consumed
    eof,        \* StreamReader saw EOF (peer closed its side)
    out,        \* peer side: bytes of the current frame not yet written
    sent,       \* history: the frames each peer has queued, in order
    got,        \* history: the frames read() returned, in order
    elapsed,    \* time since wait_for armed its timer (loop.call_later)
    frameAge,   \* history: time since the current process() call began
    age,        \* history: time since the connection was accepted
    connected,  \* metrics.connected gauge
    decs,       \* history: number of gauge decrements per connection
    iamalive,   \* metrics.iamalive counter
    received,   \* metrics.received: sequence of label triples incremented
    published,  \* producer.produce calls that were accepted, in order
    polls,      \* history: number of producer.poll(0) calls per connection
    warned,     \* history: number of type-mismatch warnings per connection
    outcome,    \* history: the exception that left the while-loop, the
                \* call that raised it, whether no byte of a new frame
                \* had arrived, the frame's age and index
    wclosed,    \* writer.close() has been called
    wwaited,    \* writer.wait_closed() has returned
    budget,     \* frames the peers may still queue (bounds the run)
    clients,    \* environment: the connections that will be made
    menu        \* environment: the frames the peers choose from

vars == << pc, rpos, cur, inbuf, eof, out, sent, got, elapsed, frameAge, age,
           connected, decs, iamalive, received, published, polls, warned,
           outcome, wclosed, wwaited, budget, clients, menu >>

(***************************************************************************)
(* Bounds of the model.                                                    *)
(***************************************************************************)
MaxFrames == 2      \* frames queued by all peers together
timeout == 1        \* the timeout argument of client_connected, in ticks

Conns == {1, 2}     \* the connections the listener may accept
MaxAge == timeout + 1

(***************************************************************************)
(* Program constants.                                                      *)
(***************************************************************************)
bin_len == 160
int4_size == 4
IM_ALIVE == 3
VOE_11_IM_ALIVE == 23
VOE_20_IM_ALIVE == 29

ignore_notice_types_short == {IM_ALIVE, VOE_11_IM_ALIVE}
ignore_notice_types_wide == {IM_ALIVE, VOE_11_IM_ALIVE, VOE_20_IM_ALIVE, 101}
ignore_notice_types == {IM_ALIVE, VOE_11_IM_ALIVE, VOE_20_IM_ALIVE}

(***************************************************************************)
(* Bytes and the int4 codec, struct.Struct("!l"): big-endian, signed,      *)
(* 32 bits.  Computed without leaving the 32-bit range.                    *)
(***************************************************************************)
Take(s, n) == SubSeq(s, 1, n)
Drop(s, n) == SubSeq(s, n + 1, Len(s))

int4_unpack_little(b) ==
    (IF b[4] >= 128 THEN b[4] - 256 ELSE b[4]) * 16777216
        + b[3] * 65536 + b[2] * 256 + b[1]

int4_unpack(b) ==
    (IF b[1] >= 128 THEN b[1] - 256 ELSE b[1]) * 16777216
        + b[2] * 65536 + b[3] * 256 + b[4]

\* int4.unpack_from(bin_data): decodes the first 4 bytes of the buffer
int4_unpack_from(b) == int4_unpack(Take(b, int4_size))

\* what the sending peer does (struct.pack("!l", n)); \div floors
int4_pack(n) ==
    << (n \div 16777216) % 256, (n \div 65536) % 256, (n \div 256) % 256, n % 256 >>

(***************************************************************************)
(* The VOEvent parser boundary.  A document is modelled at the byte level  *)
(* by a minimal grammar: "<" ... ">" is well-formed XML, and a well-formed *)
(* document of three bytes carries its Packet_Type code in the middle      *)
(* byte.  lxml.etree.fromstring raises XMLSyntaxError on anything else     *)
(* (the empty document included); gcn.handlers.get_notice_type raises      *)
(* AttributeError when the document has no Packet_Type parameter.          *)
(***************************************************************************)
fromstring_ok(voe_data) ==
    /\ Len(voe_data) >= 2
    /\ voe_data[1] = 60
    /\ voe_data[Len(voe_data)] = 62

has_packet_type(voe_data) == Len(voe_data) = 3

get_notice_type(voe_data) == voe_data[2]

(***************************************************************************)
(* The notice classifier of .common (not part of socket.py): a total       *)
(* function from type code to canonical name, with a fallback name for     *)
(* unrecognised codes, and the topic derived from (name, flavor).          *)
(***************************************************************************)
KnownNoticeTypes == {IM_ALIVE, VOE_11_IM_ALIVE, VOE_20_IM_ALIVE, 100, 101}

notice_type_int_to_str(notice_type_int) ==
    IF notice_type_int \in KnownNoticeTypes
    THEN << "name", notice_type_int >>
    ELSE << "unknown", notice_type_int >>

topic_for_notice_type_str(notice_type_str, flavor) ==
    << "gcn.classic", flavor, notice_type_str >>

(***************************************************************************)
(* process(), lines 47-79: what one fully read frame leads to.             *)
(* producer.produce may raise (BufferError, KafkaException); fail = i > 0  *)
(* is the run in which the i-th produce call raises, fail = 0 the run in   *)
(* which none does.  An exception leaves process() at once.                *)
(***************************************************************************)
\* lines 65-71: the three (type code, payload, flavor) triples, in loop order
notices(bin_notice_type, voe_notice_type, bin_data, voe_data, txt_data) ==
    << [notice_type_int |-> bin_notice_type, data |-> bin_data, flavor |-> "binary"],
       [notice_type_int |-> voe_notice_type, data |-> voe_data, flavor |-> "voevent"],
       [notice_type_int |-> bin_notice_type, data |-> txt_data, flavor |-> "text"] >>

\* lines 72-75 for one triple: the label incremented and the message produced
label_flat(n) ==
    << n.notice_type_int, notice_type_int_to_str(n.notice_type_int), "binary" >>

label(n) ==
    << n.notice_type_int, notice_type_int_to_str(n.notice_type_int), n.flavor >>

message(n) ==
    [topic  |-> topic_for_notice_type_str(notice_type_int_to_str(n.notice_type_int),
                                          n.flavor),
     data   |-> n.data,
     flavor |-> n.flavor]

\* producer.produce, line 75: the accepted calls, in the order they are made
produce_front(log, calls) == calls \o log

produce(log, calls) == log \o calls

\* a process() that polls before it returns on a heartbeat
NoEffect_polls(exc) ==
    [exc |-> exc, msgs |-> << >>, labels |-> << >>, polled |-> exc = "none",
     warned |-> FALSE]

NoEffect(exc) ==
    [exc |-> exc, msgs |-> << >>, labels |-> << >>, polled |-> FALSE, warned |-> FALSE]

\* a process() that parses the VOEvent before it tests the type code
process_parse_first(bin_data, voe_data, txt_data, fail) ==
    LET bin_notice_type == int4_unpack_from(bin_data) IN
    IF ~fromstring_ok(voe_data) THEN NoEffect("XMLSyntaxError")
    ELSE IF ~has_packet_type(voe_data) THEN NoEffect("AttributeError")
    ELSE IF bin_notice_type \in ignore_notice_types THEN NoEffect("none")
    ELSE
      LET voe_notice_type == get_notice_type(voe_data)
          todo == notices(bin_notice_type, voe_notice_type,
                          bin_data, voe_data, txt_data)
          nprod == IF fail = 0 THEN 3 ELSE fail - 1
          ninc  == IF fail = 0 THEN 3 ELSE fail
      IN  [exc    |-> IF fail = 0 THEN "none" ELSE "KafkaException",
           msgs   |-> [i \in 1..nprod |-> message(todo[i])],
           labels |-> [i \in 1..ninc |-> label(todo[i])],
           polled |-> fail = 0,
           warned |-> bin_notice_type # voe_notice_type]

process(bin_data, voe_data, txt_data, fail) ==
    LET bin_notice_type == int4_unpack_from(bin_data) IN
    IF bin_notice_type \in ignore_notice_types THEN NoEffect("none")
    ELSE IF ~fromstring_ok(voe_data) THEN NoEffect("XMLSyntaxError")
    ELSE IF ~has_packet_type(voe_data) THEN NoEffect("AttributeError")
    ELSE
      LET voe_notice_type == get_notice_type(voe_data)
          todo == notices(bin_notice_type, voe_notice_type,
                          bin_data, voe_data, txt_data)
          nprod == IF fail = 0 THEN 3 ELSE fail - 1
          ninc  == IF fail = 0 THEN 3 ELSE fail
      IN  [exc    |-> IF fail = 0 THEN "none" ELSE "KafkaException",
           msgs   |-> [i \in 1..nprod |-> message(todo[i])],
           labels |-> [i \in 1..ninc |-> label(todo[i])],
           polled |-> fail = 0,
           warned |-> bin_notice_type # voe_notice_type]

(***************************************************************************)
(* The sending peer.  A frame on the wire is the 160-byte header, the      *)
(* VOEvent length prefix and segment, the text length prefix and segment.  *)
(* A well-formed frame states the true lengths; the peer may also state a  *)
(* negative length.                                                        *)
(***************************************************************************)
Header(T) == int4_pack(T) \o [i \in 1..(bin_len - int4_size) |-> (7 * i) % 256]

Voe(code) == << 60, code, 62 >>

Frame(T, V, X) == [H |-> Header(T), L1 |-> Len(V), V |-> V, L2 |-> Len(X), X |-> X]

WellFormed(f) == f.L1 = Len(f.V) /\ f.L2 = Len(f.X)

Wire(f) == f.H \o int4_pack(f.L1) \o f.V \o int4_pack(f.L2) \o f.X

Frames ==
    { Frame(IM_ALIVE, Voe(IM_ALIVE), << 84 >>),
      Frame(VOE_20_IM_ALIVE, << 60, 100 >>, << >>),
      Frame(100, Voe(100), << 84 >>),
      Frame(100, Voe(101), << 84, 88 >>),
      Frame(101, << 60, 100 >>, << 84 >>),
      Frame(101, << 60, 62 >>, << >>),
      [Frame(100, << >>, << >>) EXCEPT !.L1 = -1],
      [Frame(100, Voe(100), << >>) EXCEPT !.L2 = -1] }

PairFrames ==
    { Frame(100, Voe(101), << 84, 88 >>),
      Frame(101, << 60, 100 >>, << 84 >>) }

\* a peer that states a VOEvent length of 1 GiB and sends three bytes
OversizeFrames ==
    { Frame(100, Voe(100), << 84 >>),
      [Frame(100, Voe(100), << >>) EXCEPT !.L1 = 1024 * 1048576] }

\* sizes of the pieces in which the peer's writes reach the reader
ChunkSizes == {bin_len}

(***************************************************************************)
(* read(), lines 36-43: five readexactly calls in a row.                   *)
(***************************************************************************)
NoLocals == [bin_data |-> << >>, voe_len |-> 0, voe_data |-> << >>, txt_len |-> 0]

\* the byte count the readexactly at position p asks for
Need(p, loc) ==
    CASE p = "bin"     -> bin_len
      [] p = "voe_len" -> int4_size
      [] p = "voe"     -> loc.voe_len
      [] p = "txt_len" -> int4_size
      [] p = "txt"     -> loc.txt_len

\* StreamReader.readexactly(n) on buffer buf: raises ValueError for n < 0,
\* returns when n bytes are buffered, raises IncompleteReadError at EOF,
\* suspends otherwise
readexactly_unchecked(buf, n, atEof) ==
    IF n >= 0 /\ Len(buf) >= n THEN "ok"
    ELSE IF atEof THEN "IncompleteReadError"
    ELSE "wait"

readexactly(buf, n, atEof) ==
    IF n < 0 THEN "ValueError"
    ELSE IF Len(buf) >= n THEN "ok"
    ELSE IF atEof THEN "IncompleteReadError"
    ELSE "wait"

Status(c) == readexactly(inbuf[c], Need(rpos[c], cur[c]), eof[c])

\* the local assigned by the readexactly at position p, and the next position
Assign(p, loc, bytes) ==
    CASE p = "bin"     -> [loc EXCEPT !.bin_data = bytes]
      [] p = "voe_len" -> [loc EXCEPT !.voe_len = int4_unpack(bytes)]
      [] p = "voe"     -> [loc EXCEPT !.voe_data = bytes]
      [] p = "txt_len" -> [loc EXCEPT !.txt_len = int4_unpack(bytes)]

NextPos(p) ==
    CASE p = "bin"     -> "voe_len"
      [] p = "voe_len" -> "voe"
      [] p = "voe"     -> "txt_len"
      [] p = "txt_len" -> "txt"

(***************************************************************************)
(* wait_for(read(), timeout), line 46: a timer armed when process() starts *)
(***************************************************************************)
wait_for_arm_once(e) == e

wait_for_arm(e) == 0

Expired_never(e) == FALSE

Expired(e) == e >= timeout

\* metrics.connected.track_inprogress(), line 84
track_inprogress_exit_skip(g) == g

track_inprogress_enter(g) == g + 1

track_inprogress_exit(g) == g - 1

(***************************************************************************)
(* State after construction: the listener is up, no connection accepted.   *)
(***************************************************************************)
NoOutcome == [exc |-> "none", by |-> "none", clean |-> FALSE, frameAge |-> 0, frame |-> 0]

Start ==
    /\ pc = [c \in Conns |-> "idle"]
    /\ rpos = [c \in Conns |-> "bin"]
    /\ cur = [c \in Conns |-> NoLocals]
    /\ inbuf = [c \in Conns |-> << >>]
    /\ eof = [c \in Conns |-> FALSE]
    /\ out = [c \in Conns |-> << >>]
    /\ sent = [c \in Conns |-> << >>]
    /\ got = [c \in Conns |-> << >>]
    /\ elapsed = [c \in Conns |-> 0]
    /\ frameAge = [c \in Conns |-> 0]
    /\ age = [c \in Conns |-> 0]
    /\ connected = 0
    /\ decs = [c \in Conns |-> 0]
    /\ iamalive = 0
    /\ received = << >>
    /\ published = << >>
    /\ polls = [c \in Conns |-> 0]
    /\ warned = [c \in Conns |-> 0]
    /\ outcome = [c \in Conns |-> NoOutcome]
    /\ wclosed = [c \in Conns |-> FALSE]
    /\ wwaited = [c \in Conns |-> FALSE]
    /\ budget = MaxFrames

\* one client connects; its peer sends any of Frames
Init == Start /\ clients = {1} /\ menu = Frames

\* every client connects; the peers send any of PairFrames
InitPair == Start /\ clients = Conns /\ menu = PairFrames

\* one client connects; its peer sends any of OversizeFrames
InitOversize == Start /\ clients = {1} /\ menu = OversizeFrames

(***************************************************************************)
(* The environment: the peer of connection c, and time.  A handler that    *)
(* can run does so before its peer's next write and before time passes:    *)
(* the event loop resumes a reader as soon as its bytes are buffered, so   *)
(* the environment acts on a connection whose handler is suspended.        *)
(***************************************************************************)
Blocked(c) == pc[c] = "reading" /\ Status(c) = "wait"

\* the peer queues frame f behind what it has not written yet
PeerQueue(c, f) ==
    /\ Blocked(c) /\ ~eof[c]
    /\ budget > 0
    /\ budget' = budget - 1
    /\ out' = [out EXCEPT ![c] = @ \o Wire(f)]
    /\ sent' = [sent EXCEPT ![c] = Append(@, f)]
    /\ UNCHANGED << pc, rpos, cur, inbuf, eof, got, elapsed, frameAge, age,
                    connected, decs, iamalive, received, published, polls,
                    warned, outcome, wclosed, wwaited, clients, menu >>

\* the next n bytes of the peer's frame arrive in the reader's buffer
PeerSend(c, n) ==
    /\ Blocked(c) /\ ~eof[c]
    /\ n > 0 /\ n <= Len(out[c])
    /\ inbuf' = [inbuf EXCEPT ![c] = @ \o Take(out[c], n)]
    /\ out' = [out EXCEPT ![c] = Drop(@, n)]
    /\ UNCHANGED << pc, rpos, cur, eof, sent, got, elapsed, frameAge, age,
                    connected, decs, iamalive, received, published, polls,
                    warned, outcome, wclosed, wwaited, budget, clients, menu >>

\* the peer closes the stream; what it had not written yet is never sent
PeerClose(c) ==
    /\ Blocked(c) /\ ~eof[c]
    /\ eof' = [eof EXCEPT ![c] = TRUE]
    /\ out' = [out EXCEPT ![c] = << >>]
    /\ UNCHANGED << pc, rpos, cur, inbuf, sent, got, elapsed, frameAge, age,
                    connected, decs, iamalive, received, published, polls,
                    warned, outcome, wclosed, wwaited, budget, clients, menu >>

\* one unit of time passes; a timer that has expired fires before more passes
Tick ==
    /\ \E c \in Conns : pc[c] = "reading"
    /\ \A c \in Conns :
          pc[c] = "reading" =>
              Blocked(c) /\ ~Expired(elapsed[c]) /\ frameAge[c] < MaxAge
    /\ elapsed' = [c \in Conns |-> IF pc[c] = "reading" THEN elapsed[c] + 1
                                                       ELSE elapsed[c]]
    /\ frameAge' = [c \in Conns |-> IF pc[c] = "reading" THEN frameAge[c] + 1
                                                        ELSE frameAge[c]]
    /\ age' = [c \in Conns |-> IF pc[c] = "reading" /\ age[c] < MaxAge
                               THEN age[c] + 1 ELSE age[c]]
    /\ UNCHANGED << pc, rpos, cur, inbuf, eof, out, sent, got, connected, decs,
                    iamalive, received, published, polls, warned, outcome,
                    wclosed, wwaited, budget, clients, menu >>

(***************************************************************************)
(* client_connected_cb, lines 81-90.                                       *)
(***************************************************************************)
\* lines 81-86 up to the first suspension: the gauge is incremented, the
\* loop entered, process() called and the timer of its wait_for armed
Accept(c) ==
    /\ c \in clients /\ pc[c] = "idle"
    /\ pc' = [pc EXCEPT ![c] = "reading"]
    /\ connected' = track_inprogress_enter(connected)
    /\ elapsed' = [elapsed EXCEPT ![c] = wait_for_arm(@)]
    /\ UNCHANGED << rpos, cur, inbuf, eof, out, sent, got, frameAge, age, decs,
                    iamalive, received, published, polls, warned, outcome,
                    wclosed, wwaited, budget, clients, menu >>

\* a loop that catches the exception and calls process() again
Exit_retry(c, exc, by) ==
    /\ outcome' = [outcome EXCEPT ![c] =
                      [exc      |-> exc,
                       by       |-> by,
                       clean    |-> rpos[c] = "bin" /\ inbuf[c] = << >>,
                       frameAge |-> frameAge[c],
                       frame    |-> Len(got[c]) + 1]]
    /\ UNCHANGED << pc, connected, decs, wclosed >>

\* a handler whose exception took every running connection down with it
Exit_all(c, exc, by) ==
    /\ pc' = [d \in Conns |-> IF pc[d] = "reading" THEN "closing" ELSE pc[d]]
    /\ connected' = 0
    /\ decs' = [d \in Conns |-> IF pc[d] = "reading" THEN decs[d] + 1 ELSE decs[d]]
    /\ wclosed' = [d \in Conns |-> wclosed[d] \/ pc[d] = "reading"]
    /\ outcome' = [d \in Conns |->
                      IF pc[d] = "reading"
                      THEN [exc      |-> exc,
                            by       |-> by,
                            clean    |-> rpos[d] = "bin" /\ inbuf[d] = << >>,
                            frameAge |-> frameAge[d],
                            frame    |-> Len(got[d]) + 1]
                      ELSE outcome[d]]

\* an exception leaves the while-loop: the with-block exits (gauge), then
\* finally runs writer.close() and suspends in writer.wait_closed()
Exit(c, exc, by) ==
    /\ pc' = [pc EXCEPT ![c] = "closing"]
    /\ connected' = track_inprogress_exit(connected)
    /\ decs' = [decs EXCEPT ![c] = @ + 1]
    /\ wclosed' = [wclosed EXCEPT ![c] = TRUE]
    /\ outcome' = [outcome EXCEPT ![c] =
                      [exc      |-> exc,
                       by       |-> by,
                       clean    |-> rpos[c] = "bin" /\ inbuf[c] = << >>,
                       frameAge |-> frameAge[c],
                       frame    |-> Len(got[c]) + 1]]

\* one of the first four readexactly calls of read() returns
ReadSegment(c) ==
    /\ pc[c] = "reading" /\ rpos[c] # "txt"
    /\ Status(c) = "ok"
    /\ LET n == Need(rpos[c], cur[c]) IN
         /\ cur' = [cur EXCEPT ![c] = Assign(rpos[c], @, Take(inbuf[c], n))]
         /\ inbuf' = [inbuf EXCEPT ![c] = Drop(@, n)]
    /\ rpos' = [rpos EXCEPT ![c] = NextPos(@)]
    /\ UNCHANGED << pc, eof, out, sent, got, elapsed, frameAge, age, connected,
                    decs, iamalive, received, published, polls, warned,
                    outcome, wclosed, wwaited, budget, clients, menu >>

\* a readexactly call of read() raises: ValueError or IncompleteReadError
ReadFail(c) ==
    /\ pc[c] = "reading"
    /\ Status(c) \in {"ValueError", "IncompleteReadError"}
    /\ Exit(c, Status(c), "readexactly")
    /\ UNCHANGED << rpos, cur, inbuf, eof, out, sent, got, elapsed, frameAge,
                    age, iamalive, received, published, polls, warned,
                    wwaited, budget, clients, menu >>

\* the timer of wait_for fires: read() is cancelled, TimeoutError raised
Timeout(c) ==
    /\ pc[c] = "reading"
    /\ Expired(elapsed[c])
    /\ Exit(c, "TimeoutError", "wait_for")
    /\ UNCHANGED << rpos, cur, inbuf, eof, out, sent, got, elapsed, frameAge,
                    age, iamalive, received, published, polls, warned,
                    wwaited, budget, clients, menu >>

\* the last readexactly returns, read() returns the frame, and process()
\* runs lines 47-79 without suspending; then the loop calls process() again
ProcessFrame(c, fail) ==
    /\ pc[c] = "reading" /\ rpos[c] = "txt"
    /\ Status(c) = "ok"
    /\ LET n        == Need("txt", cur[c])
           bin_data == cur[c].bin_data
           voe_data == cur[c].voe_data
           txt_data == Take(inbuf[c], n)
           r        == process(bin_data, voe_data, txt_data, fail)
           k        == Len(got[c]) + 1
       IN
         /\ fail > 0 => Len(r.labels) = fail
         /\ inbuf' = [inbuf EXCEPT ![c] = Drop(@, n)]
         /\ got' = [got EXCEPT ![c] = Append(@, << bin_data, voe_data, txt_data >>)]
         /\ iamalive' = iamalive + 1
         /\ received' = received \o r.labels
         /\ published' = produce(published,
               [i \in 1..Len(r.msgs) |->
                   [conn |-> c, frame |-> k, topic |-> r.msgs[i].topic,
                    data |-> r.msgs[i].data, flavor |-> r.msgs[i].flavor]])
         /\ polls' = [polls EXCEPT ![c] = IF r.polled THEN @ + 1 ELSE @]
         /\ warned' = [warned EXCEPT ![c] = IF r.warned THEN @ + 1 ELSE @]
         /\ IF r.exc = "none"
            THEN /\ rpos' = [rpos EXCEPT ![c] = "bin"]
                 /\ cur' = [cur EXCEPT ![c] = NoLocals]
                 /\ elapsed' = [elapsed EXCEPT ![c] = wait_for_arm(@)]
                 /\ frameAge' = [frameAge EXCEPT ![c] = 0]
                 /\ UNCHANGED << pc, connected, decs, wclosed, outcome >>
            ELSE /\ Exit(c, r.exc, "process")
                 /\ UNCHANGED << rpos, cur, elapsed, frameAge >>
    /\ UNCHANGED << eof, out, sent, age, wwaited, budget, clients, menu >>

\* writer.wait_closed() returns and the exception leaves the callback
WaitClosed(c) ==
    /\ pc[c] = "closing"
    /\ pc' = [pc EXCEPT ![c] = "closed"]
    /\ wwaited' = [wwaited EXCEPT ![c] = TRUE]
    /\ UNCHANGED << rpos, cur, inbuf, eof, out, sent, got, elapsed, frameAge,
                    age, connected, decs, iamalive, received, published, polls,
                    warned, outcome, wclosed, budget, clients, menu >>

Next ==
    \/ \E c \in Conns : Accept(c)
    \/ \E c \in Conns : ReadSegment(c)
    \/ \E c \in Conns : ReadFail(c)
    \/ \E c \in Conns : Timeout(c)
    \/ \E c \in Conns, fail \in 0..3 : ProcessFrame(c, fail)
    \/ \E c \in Conns : WaitClosed(c)
    \/ \E c \in Conns, f \in menu : PeerQueue(c, f)
    \/ \E c \in Conns : \E n \in ChunkSizes \cup {Len(out[c])} : PeerSend(c, n)
    \/ \E c \in Conns : PeerClose(c)
    \/ Tick

Spec == Init /\ [][Next]_vars

SpecPair == InitPair /\ [][Next]_vars

SpecOversize == InitOversize /\ [][Next]_vars

(***************************************************************************)
(* Vocabulary of the properties.  The heartbeat set and the expected       *)
(* routing are stated here on their own, not through the definitions of    *)
(* the handler above.                                                      *)
(***************************************************************************)
HeartbeatCodes == {3, 23, 29}

Flavors == {"binary", "voevent", "text"}

\* the frames read() has returned on connection c, by index
FrameIds(c) == 1..Len(got[c])

TypeOf(fr) == int4_unpack_from(fr[1])

IsHeartbeat(fr) == TypeOf(fr) \in HeartbeatCodes

\* the accepted publish submissions made for frame k of connection c
PubsOf(c, k) == SelectSeq(published, LAMBDA r : r.conn = c /\ r.frame = k)

\* the payload of a flavor, and the type code the flavor is classified by
PayloadOf(fr, flavor) ==
    CASE flavor = "binary"  -> fr[1]
      [] flavor = "voevent" -> fr[2]
      [] flavor = "text"    -> fr[3]

CodeOf(fr, flavor) ==
    IF flavor = "voevent" THEN get_notice_type(fr[2]) ELSE TypeOf(fr)

TopicOf(fr, flavor) ==
    topic_for_notice_type_str(notice_type_int_to_str(CodeOf(fr, flavor)), flavor)

\* exactly three submissions, one per flavor, each with the flavor's own
\* payload on the flavor's own topic
ThreePublishes(c, k) ==
    LET ps == PubsOf(c, k)
        fr == got[c][k]
    IN  /\ Len(ps) = 3
        /\ has_packet_type(fr[2])
        /\ \A fl \in Flavors :
              \E i \in 1..3 :
                 /\ ps[i].flavor = fl
                 /\ ps[i].data = PayloadOf(fr, fl)
                 /\ ps[i].topic = TopicOf(fr, fl)

Left(c) == pc[c] \in {"closing", "closed"}

\* C1: every fully read frame that is no heartbeat and whose VOEvent segment
\* parses gets exactly three publish submissions, one per flavor, each with
\* that flavor's payload unchanged, on the topic of that flavor's type code.
C1_ThreePublishesPerNotice ==
    \A c \in Conns : \A k \in FrameIds(c) :
       (~IsHeartbeat(got[c][k]) /\ fromstring_ok(got[c][k][2]))
          => ThreePublishes(c, k)

\* C2: the step in which a heartbeat frame is returned by read() makes no
\* publish submission and leaves the connection in the loop, at the start
\* of the next frame read with the deadline armed anew.
C2_HeartbeatSkipped ==
    [][ \A c \in Conns :
          (Len(got'[c]) = Len(got[c]) + 1 /\ IsHeartbeat(got'[c][Len(got'[c])]))
             => /\ published' = published
                /\ pc'[c] = "reading"
                /\ rpos'[c] = "bin"
                /\ cur'[c] = NoLocals
                /\ elapsed'[c] = 0 ]_vars

C2_Witness ==
    \E c \in Conns :
       /\ Len(got[c]) = 2
       /\ IsHeartbeat(got[c][1])
       /\ PubsOf(c, 1) = << >>

\* the number of heartbeat frames read so far, over all connections
RECURSIVE HeartbeatsIn(_)
HeartbeatsIn(frames) ==
    IF frames = << >> THEN 0
    ELSE (IF IsHeartbeat(Head(frames)) THEN 1 ELSE 0) + HeartbeatsIn(Tail(frames))

\* C3: the heartbeat counter equals the number of fully read frames whose
\* type code is in the heartbeat set.
C3_CounterCountsHeartbeats ==
    iamalive = HeartbeatsIn(got[1]) + HeartbeatsIn(got[2])

\* C4: a non-heartbeat notice whose binary-derived and XML-derived codes
\* differ is not aborted and does not close the connection: the warning is
\* logged, binary and text go to the topics of the binary code, voevent to
\* the topic of the XML code.
C4_MismatchNotFatal ==
    \A c \in Conns : \A k \in FrameIds(c) :
       LET fr == got[c][k] IN
       (/\ ~IsHeartbeat(fr)
        /\ fromstring_ok(fr[2]) /\ has_packet_type(fr[2])
        /\ get_notice_type(fr[2]) # TypeOf(fr))
          => /\ ThreePublishes(c, k)
             /\ warned[c] >= 1
             /\ ~(Left(c) /\ outcome[c].frame = k)

\* C5: a non-heartbeat frame whose VOEvent segment does not parse closes
\* the connection, and nothing of any flavor is published for it.
C5_MalformedVOEventCloses ==
    \A c \in Conns : \A k \in FrameIds(c) :
       (~IsHeartbeat(got[c][k]) /\ ~fromstring_ok(got[c][k][2]))
          => /\ Left(c)
             /\ wclosed[c]
             /\ k = Len(got[c])
             /\ PubsOf(c, k) = << >>

C5_Witness ==
    \E c \in Conns :
       /\ pc[c] = "closed"
       /\ Len(got[c]) = 2
       /\ ~IsHeartbeat(got[c][2]) /\ ~fromstring_ok(got[c][2][2])
       /\ PubsOf(c, 2) = << >>

\* the peer's close ended the connection: with no byte of a new frame
\* read or buffered (between frames), or inside a frame
ClosedBetweenFrames(c) ==
    Left(c) /\ outcome[c].by = "readexactly" /\ eof[c] /\ outcome[c].clean

ClosedMidFrame(c) ==
    Left(c) /\ outcome[c].by = "readexactly" /\ eof[c] /\ ~outcome[c].clean
       /\ outcome[c].exc # "ValueError"

\* C6: the handler tells a peer close between frames from a peer close
\* inside a frame: the outcomes that end the two connections are never the
\* same.
C6_PeerClosedIsNotIncompleteFrame ==
    \A c, d \in Conns :
       (ClosedBetweenFrames(c) /\ ClosedMidFrame(d))
          => outcome[c].exc # outcome[d].exc

\* C7: a frame read never stays blocked past the deadline counted from the
\* start of that read; when the deadline ends the read, the connection is
\* closed, the frame in progress is never returned and nothing of it is
\* published.
C7_DeadlineEndsRead ==
    \A c \in Conns :
       /\ pc[c] = "reading" => frameAge[c] <= timeout
       /\ outcome[c].by = "wait_for"
             => /\ Left(c) /\ wclosed[c]
                /\ Len(got[c]) = outcome[c].frame - 1
                /\ PubsOf(c, outcome[c].frame) = << >>

C7_Witness ==
    \E c \in Conns :
       /\ pc[c] = "closed"
       /\ outcome[c].exc = "TimeoutError"
       /\ rpos[c] # "bin"
       /\ outcome[c].frameAge = timeout

\* C8: the deadline is per frame: the timer always shows the time since the
\* current frame read began, and it ends a connection only when that frame
\* read itself has lasted the whole deadline, whatever the connection's age
\* and the number of frames it has carried.
C8_DeadlinePerFrame ==
    \A c \in Conns :
       /\ pc[c] = "reading" => elapsed[c] = frameAge[c]
       /\ outcome[c].by = "wait_for" => outcome[c].frameAge >= timeout

C8_Witness ==
    \E c \in Conns :
       /\ pc[c] = "reading"
       /\ Len(got[c]) = 2
       /\ age[c] > timeout

\* C9: the gauge equals the number of connections inside the loop; every
\* connection that left the loop, by whatever exception, has decremented
\* the gauge exactly once and closed its socket, and has awaited the close
\* once the handler is done; with every connection closed the gauge is 0.
C9_TeardownUnconditional ==
    /\ connected = Cardinality({c \in Conns : pc[c] = "reading"})
    /\ \A c \in Conns :
          /\ Left(c) => decs[c] = 1 /\ wclosed[c] /\ outcome[c].exc # "none"
          /\ pc[c] = "closed" => wwaited[c]
          /\ ~Left(c) => decs[c] = 0 /\ ~wclosed[c]
    /\ (\A c \in Conns : pc[c] = "closed") => connected = 0

C9_Witness ==
    /\ \A c \in Conns : pc[c] = "closed"
    /\ connected = 0
    /\ \E c, d \in Conns :
          /\ outcome[c].exc = "KafkaException"
          /\ outcome[d].exc \in {"TimeoutError", "IncompleteReadError",
                                 "XMLSyntaxError"}

\* the wire image of a sequence of frames
RECURSIVE WireOf(_)
WireOf(frames) ==
    IF frames = << >> THEN << >> ELSE Wire(Head(frames)) \o WireOf(Tail(frames))

WellFormedStream(c) == \A j \in 1..Len(sent[c]) : WellFormed(sent[c][j])

\* C10: on a stream of well-formed frames read() returns each frame's
\* (H, V, X) unchanged and in order, at every frame boundary the unread
\* stream is exactly the frames still to come, and a reader whose peer has
\* written everything is suspended only when every frame has been returned.
C10_FrameRoundTrip ==
    \A c \in Conns :
       WellFormedStream(c) =>
          /\ Len(got[c]) <= Len(sent[c])
          /\ \A k \in FrameIds(c) :
                got[c][k] = << sent[c][k].H, sent[c][k].V, sent[c][k].X >>
          /\ (pc[c] = "reading" /\ rpos[c] = "bin" /\ ~eof[c])
                => inbuf[c] \o out[c] =
                      WireOf(SubSeq(sent[c], Len(got[c]) + 1, Len(sent[c])))
          /\ (Blocked(c) /\ ~eof[c] /\ out[c] = << >>)
                => Len(got[c]) = Len(sent[c])

C10_Witness ==
    \E c \in Conns :
       /\ Len(got[c]) = 2
       /\ WellFormedStream(c)
       /\ got[c][1] # got[c][2]
       /\ got[c][1][2] # << >> /\ got[c][1][3] # << >>
       /\ got[c][2][2] # << >> /\ got[c][2][3] # << >>

\* the accepted publish submissions of connection c, over all its frames
PubsOfConn(log, c) == SelectSeq(log, LAMBDA r : r.conn = c)

\* C11: the step in which one connection leaves its loop, for whatever
\* reason, changes nothing of any other connection: its place in the loop
\* and in its frame, its buffers, the frames it has read, its timer, its
\* publish submissions and its teardown state all stay as they were.
C11_ClosureIsolated ==
    [][ \A c \in Conns :
          (pc[c] = "reading" /\ pc'[c] = "closing")
             => \A d \in Conns \ {c} :
                   /\ pc'[d] = pc[d]
                   /\ rpos'[d] = rpos[d] /\ cur'[d] = cur[d]
                   /\ inbuf'[d] = inbuf[d] /\ eof'[d] = eof[d]
                   /\ got'[d] = got[d]
                   /\ elapsed'[d] = elapsed[d]
                   /\ polls'[d] = polls[d]
                   /\ PubsOfConn(published', d) = PubsOfConn(published, d)
                   /\ outcome'[d] = outcome[d]
                   /\ decs'[d] = decs[d]
                   /\ wclosed'[d] = wclosed[d] /\ wwaited'[d] = wwaited[d] ]_vars

C11_Witness ==
    \E c, d \in Conns :
       /\ pc[c] = "closed" /\ outcome[c].exc = "XMLSyntaxError"
       /\ wwaited[c]
       /\ pc[d] = "reading" /\ rpos[d] = "txt"
       /\ cur[d].voe_data # << >>

\* a segment size no notice comes near: 64 MiB
SaneSegmentBound == 64 * 1048576

\* the readexactly call connection c is at asks for more than the bound
AtOversizedSegment(c) ==
    rpos[c] \in {"voe", "txt"} /\ Need(rpos[c], cur[c]) > SaneSegmentBound

\* C12: a VOEvent or text length prefix above the bound fails the frame read
\* with OversizedSegment before the segment's bytes are awaited: no handler
\* is ever suspended waiting for an oversized segment, and the connection
\* that decoded such a prefix has left its loop with OversizedSegment.
C12_OversizedSegmentRejected ==
    \A c \in Conns :
       AtOversizedSegment(c)
          => /\ ~Blocked(c)
             /\ Left(c) /\ outcome[c].exc = "OversizedSegment"

\* C13: once an exception (read timeout, read error, parse failure or any
\* other) has left the loop of a connection, the connection is never back
\* in the loop: no byte is read from its buffer, no frame is returned, no
\* publish submission and no poll is made on it, and the frame that failed
\* is not read or processed again.
C13_ClosedIsTerminal ==
    [][ \A c \in Conns :
          outcome[c].exc # "none"
             => /\ pc'[c] \in {"closing", "closed"}
                /\ pc[c] = "closed" => pc'[c] = "closed"
                /\ rpos'[c] = rpos[c] /\ cur'[c] = cur[c]
                /\ inbuf'[c] = inbuf[c]
                /\ got'[c] = got[c]
                /\ PubsOfConn(published', c) = PubsOfConn(published, c)
                /\ polls'[c] = polls[c]
                /\ outcome'[c] = outcome[c] ]_vars

C13_Witness ==
    \E c \in Conns :
       /\ pc[c] = "closed"
       /\ outcome[c].exc \in {"XMLSyntaxError", "TimeoutError", "ValueError"}
       /\ inbuf[c] # << >>

\* frame k of connection c has been dealt with in full: skipped as a
\* heartbeat, or submitted three times
Completed(c, k) == IsHeartbeat(got[c][k]) \/ Len(PubsOf(c, k)) = 3

\* the number of frames among the given ones that are no heartbeat
NonHeartbeatsIn(frames) == Len(frames) - HeartbeatsIn(frames)

\* C14: a connection has at most one frame in flight and handles its frames
\* in arrival order: while it is in its loop (reading the next frame, or
\* waiting for it) every frame it has read before is dealt with in full,
\* publish submissions and poll included; its publish submissions are for
\* frames it has read, and all those for one frame come before all those
\* for the next.
C14_OneFrameInFlight ==
    \A c \in Conns :
       LET ps == PubsOfConn(published, c) IN
       /\ Len(got[c]) <= Len(sent[c])
       /\ \A i \in 1..Len(ps) : ps[i].frame \in FrameIds(c)
       /\ \A i, j \in 1..Len(ps) : i < j => ps[i].frame <= ps[j].frame
       /\ pc[c] = "reading"
             => /\ \A k \in FrameIds(c) : Completed(c, k)
                /\ polls[c] = NonHeartbeatsIn(got[c])
       /\ Left(c) => \A k \in FrameIds(c) :
                        k < outcome[c].frame => Completed(c, k)

C14_Witness ==
    \E c \in Conns :
       /\ Len(got[c]) = 2
       /\ ThreePublishes(c, 1) /\ ThreePublishes(c, 2)
       /\ got[c][1] # got[c][2]
       /\ polls[c] = 2

\* the flavors of frame k of connection c that were submitted
FlavorsPublished(c, k) ==
    { fl \in Flavors : \E i \in 1..Len(PubsOf(c, k)) : PubsOf(c, k)[i].flavor = fl }

\* C15: the three publish submissions are attempted independently: for a
\* frame that is no heartbeat and whose XML parsed, a failure on one flavor
\* (its type code cannot be extracted, or its publish call raises) leaves
\* the other two flavors submitted; a failure on the voevent flavor leaves
\* binary and text submitted.
C15_PublishesIndependent ==
    \A c \in Conns : \A k \in FrameIds(c) :
       (~IsHeartbeat(got[c][k]) /\ fromstring_ok(got[c][k][2]))
          => /\ Cardinality(FlavorsPublished(c, k)) >= 2
             /\ ~has_packet_type(got[c][k][2])
                   => {"binary", "text"} \subseteq FlavorsPublished(c, k)

\* a publish call for frame k of connection c raised: the frame went into
\* the publish loop and came out with fewer than three accepted submissions
PublishRaised(c, k) ==
    /\ ~IsHeartbeat(got[c][k])
    /\ fromstring_ok(got[c][k][2]) /\ has_packet_type(got[c][k][2])
    /\ Len(PubsOf(c, k)) < 3

\* C16: a failure surfaced by the producer during a publish submission does
\* not fail the handler: the connection is not closed by the frame whose
\* submission raised, no connection ends with the producer's exception, and
\* the handler is back at the start of a frame read.
C16_PublisherFailureNotFatal ==
    \A c \in Conns :
       /\ outcome[c].exc # "KafkaException"
       /\ \A k \in FrameIds(c) :
             PublishRaised(c, k) => pc[c] = "reading"

\* the step returns a frame on connection c
FrameReturned(c) == Len(got'[c]) = Len(got[c]) + 1

LabelsSeen == { received[i] : i \in 1..Len(received) }

\* the increments of the counter of label L, and the accepted publish
\* submissions made for L's (canonical name, flavor)
ReceivedCount(L) == Len(SelectSeq(received, LAMBDA x : x = L))

PublishedCount(L) ==
    Len(SelectSeq(published,
                  LAMBDA r : r.flavor = L[3]
                             /\ r.topic = topic_for_notice_type_str(L[2], L[3])))

\* the publish submissions that raised: one on each connection it closed
Raised == Cardinality({ c \in Conns : outcome[c].exc = "KafkaException" })

\* C18: the received counter is incremented once before each publish
\* submission and nowhere else: every submission was counted under its own
\* label, each label's count is at least the number of accepted submissions
\* for it and exceeds it by at most the number of submissions that raised,
\* the counts exceed the accepted submissions by exactly that number in
\* all, and frames that are heartbeats or whose XML does not parse leave
\* the counter alone.
C18_ReceivedCounter ==
    /\ \A i \in 1..Len(published) :
          \E L \in LabelsSeen :
             /\ L[3] = published[i].flavor
             /\ topic_for_notice_type_str(L[2], L[3]) = published[i].topic
    /\ \A L \in LabelsSeen :
          /\ L[2] = notice_type_int_to_str(L[1])
          /\ ReceivedCount(L) >= PublishedCount(L)
          /\ ReceivedCount(L) - PublishedCount(L) <= Raised
    /\ Len(received) = Len(published) + Raised
    /\ (\A c \in Conns : \A k \in FrameIds(c) :
           IsHeartbeat(got[c][k]) \/ ~fromstring_ok(got[c][k][2]))
          => received = << >>

C18_Witness ==
    \E c \in Conns :
       /\ Len(got[c]) = 2
       /\ IsHeartbeat(got[c][1])
       /\ outcome[c].exc = "KafkaException"
       /\ Len(received) = 2 /\ Len(published) = 1

\* the handling of frame k closed connection c
ClosedByFrame(c, k) ==
    Left(c) /\ outcome[c].by = "process" /\ outcome[c].frame = k

\* C19: the VOEvent and text segments of a heartbeat frame are read in full
\* and never inspected: whatever they hold, the handling of a heartbeat
\* frame raises nothing and does not close the connection; an XML failure
\* ends a connection only on a frame whose binary type code is no
\* heartbeat code.
C19_HeartbeatSegmentsNotInspected ==
    \A c \in Conns :
       /\ \A k \in FrameIds(c) :
             IsHeartbeat(got[c][k])
                => /\ ~ClosedByFrame(c, k)
                   /\ (\A j \in 1..k : WellFormed(sent[c][j]))
                         => /\ got[c][k][2] = sent[c][k].V
                            /\ got[c][k][3] = sent[c][k].X
       /\ outcome[c].exc \in {"XMLSyntaxError", "AttributeError"}
             => /\ outcome[c].frame \in FrameIds(c)
                /\ ~IsHeartbeat(got[c][outcome[c].frame])

C19_Witness ==
    \E c \in Conns :
       /\ pc[c] = "reading"
       /\ Len(got[c]) = 2
       /\ IsHeartbeat(got[c][1]) /\ ~fromstring_ok(got[c][1][2])
       /\ got[c][1][2] # << >>
       /\ IsHeartbeat(got[c][2]) /\ fromstring_ok(got[c][2][2])

\* connection c is inside the read of a frame its peer wrote (or was when
\* the read ended), and every frame before it was well-formed
ReadingSentFrame(c) ==
    /\ outcome[c].by # "process"
    /\ Len(sent[c]) > Len(got[c])
    /\ \A j \in 1..Len(got[c]) : WellFormed(sent[c][j])

\* C20: the length prefixes are decoded as signed 32-bit big-endian
\* integers: the reader holds the length its peer stated, negative ones
\* included.  A negative VOEvent or text length makes the read fail at once
\* (it is never awaited): the connection is closed with the teardown, the
\* frame is not returned and nothing is published for it.  A length of
\* zero is accepted and gives an empty segment.
C20_SignedLengthPrefix ==
    \A c \in Conns :
       /\ (ReadingSentFrame(c) /\ rpos[c] \in {"voe", "txt_len", "txt"})
             => cur[c].voe_len = sent[c][Len(got[c]) + 1].L1
       /\ (ReadingSentFrame(c) /\ rpos[c] = "txt"
              /\ sent[c][Len(got[c]) + 1].L1 = Len(sent[c][Len(got[c]) + 1].V))
             => cur[c].txt_len = sent[c][Len(got[c]) + 1].L2
       /\ (pc[c] = "reading" /\ Need(rpos[c], cur[c]) < 0)
             => Status(c) = "ValueError" /\ ~Blocked(c)
       /\ outcome[c].exc = "ValueError"
             => /\ Need(rpos[c], cur[c]) < 0
                /\ Left(c) /\ wclosed[c] /\ decs[c] = 1
                /\ pc[c] = "closed" => wwaited[c]
                /\ Len(got[c]) = outcome[c].frame - 1
                /\ PubsOf(c, outcome[c].frame) = << >>
       /\ \A k \in FrameIds(c) :
             (\A j \in 1..k : WellFormed(sent[c][j]))
                => /\ Len(got[c][k][2]) = sent[c][k].L1
                   /\ Len(got[c][k][3]) = sent[c][k].L2
                   /\ sent[c][k].L2 = 0 => got[c][k][3] = << >>

C20_Witness ==
    \E c \in Conns :
       /\ pc[c] = "closed" /\ outcome[c].exc = "ValueError"
       /\ rpos[c] = "txt" /\ cur[c].txt_len = -1
       /\ Len(got[c]) = 1
       /\ sent[c][1].L2 = 0 /\ got[c][1][3] = << >>

====
